---- MODULE Spec2Model ----
(***************************************************************************)
(* Expression executors of package expr (src/environment.go, 178-675).     *)
(*                                                                         *)
(* A reflect.Value is a record: kind is the kind of the innermost value,   *)
(* ind the number of pointer layers around it, and b / n,im,d / s the      *)
(* boolean, numeric and text payloads.  An Exec call is one action: it     *)
(* takes the pending operand and a continuation, and leaves the returned   *)
(* (value, error) pair, or the panic, and the number of times the          *)
(* continuation was invoked.                                               *)
(*                                                                         *)
(* Go computes on int64 and uint64.  TLC has no 64-bit integers, so the    *)
(* word width is WordBits: every integer operation below wraps modulo      *)
(* 2^WordBits exactly where Go wraps modulo 2^64.                          *)
(***************************************************************************)
EXTENDS Integers, Sequences, FiniteSets, TLC

\* Width of int64 / uint64 in the model.
WordBits == 2
\* Longest text operand drawn as an input.
MaxLen == 1

Modulus == 2 ^ WordBits
MinInt64 == -(2 ^ (WordBits - 1))
MaxInt64 == 2 ^ (WordBits - 1) - 1
MaxUint64 == Modulus - 1

-----------------------------------------------------------------------------
(* reflect.Kind and reflect.Value *)

IntKinds == {"Int", "Int8", "Int16", "Int32", "Int64"}
UintKinds == {"Uint", "Uint8", "Uint16", "Uint32", "Uint64"}
FloatKinds == {"Float32", "Float64"}
ComplexKinds == {"Complex64", "Complex128"}

\* var invalidValue = reflect.Value{}
invalidValue ==
    [kind |-> "Invalid", ind |-> 0, b |-> FALSE, n |-> 0, im |-> 0, d |-> 1, s |-> <<>>]

\* var nilValue = reflect.ValueOf(nil): the zero Value as well.
nilValue == invalidValue

BoolOf(x) == [invalidValue EXCEPT !.kind = "Bool", !.b = x]

trueValue == BoolOf(TRUE)

falseValue == BoolOf(FALSE)

\* reflect.ValueOf of an int64, a uint64, a float64, a complex128, a string.
Int64Of(x) == [invalidValue EXCEPT !.kind = "Int64", !.n = x]

Uint64Of(x) == [invalidValue EXCEPT !.kind = "Uint64", !.n = x]

Float64Of(f) == [invalidValue EXCEPT !.kind = "Float64", !.n = f.n, !.d = f.d]

Complex128Of(c) ==
    [invalidValue EXCEPT !.kind = "Complex128", !.n = c.n, !.im = c.im, !.d = c.d]

StringOf(t) == [invalidValue EXCEPT !.kind = "String", !.s = t]

\* A pointer to v; a pointer to the invalid value is the nil pointer.
PtrTo(v) == [v EXCEPT !.ind = @ + 1]

\* Value.Kind()
Kind(v) == IF v.ind > 0 THEN "Pointer" ELSE v.kind

\* Value.Elem() of a pointer
Elem(v) == [v EXCEPT !.ind = @ - 1]

RECURSIVE Unwrap(_)
\* reflectlite.Unwrap: follows the indirections down to the concrete value.
Unwrap(v) == IF Kind(v) = "Pointer" THEN Unwrap(Elem(v)) ELSE v

-----------------------------------------------------------------------------
(* Go arithmetic on the payloads *)

Abs(x) == IF x < 0 THEN -x ELSE x

Sign(x) == IF x < 0 THEN -1 ELSE IF x > 0 THEN 1 ELSE 0

RECURSIVE GCD(_, _)
GCD(a, b) == IF b = 0 THEN a ELSE GCD(b, a % b)

\* int64 results wrap into [MinInt64, MaxInt64] (two's complement).
WrapInt64(x) == ((x - MinInt64) % Modulus) + MinInt64

\* uint64 results wrap into [0, MaxUint64].
WrapUint64(x) == x % Modulus

\* A conversion that clamps a negative int64 to zero.
ToUint64_Clamped(x) == IF x < 0 THEN 0 ELSE x

\* The conversion uint64(x) of an int64 x.
ToUint64(x) == x % Modulus

\* Go's integer division truncates toward zero.
TruncQuo(x, y) ==
    IF (x < 0) = (y < 0) THEN Abs(x) \div Abs(y) ELSE -(Abs(x) \div Abs(y))

\* Go's remainder has the sign of the dividend.
TruncRem(x, y) == x - y * TruncQuo(x, y)

\* A float64 is the rational n/d in lowest terms with d > 0; d = 0 is a
\* non-finite value: +Inf (n = 1), -Inf (n = -1) or NaN (n = 0).  The inputs
\* are small integers, on which one operation is exact in IEEE 754.
FloatNorm(n, d) ==
    IF d = 0 THEN [n |-> Sign(n), d |-> 0]
    ELSE LET g == GCD(Abs(n), Abs(d))
         IN  [n |-> Sign(d) * (n \div g), d |-> Abs(d) \div g]

FloatAdd(x, y) == FloatNorm(x.n * y.d + y.n * x.d, x.d * y.d)

FloatSub(x, y) == FloatNorm(x.n * y.d - y.n * x.d, x.d * y.d)

FloatMul(x, y) == FloatNorm(x.n * y.n, x.d * y.d)

FloatQuo(x, y) == FloatNorm(x.n * y.d, x.d * y.n)

\* A complex128 is (n + im*i)/d with d > 0; d = 0 is a non-finite value whose
\* parts are the signs of n and im times infinity (NaN for 0).
ComplexNorm(n, im, d) ==
    IF d = 0 THEN [n |-> Sign(n), im |-> Sign(im), d |-> 0]
    ELSE LET g == GCD(GCD(Abs(n), Abs(im)), Abs(d))
         IN  [n |-> Sign(d) * (n \div g), im |-> Sign(d) * (im \div g), d |-> Abs(d) \div g]

ComplexAdd(x, y) == ComplexNorm(x.n * y.d + y.n * x.d, x.im * y.d + y.im * x.d, x.d * y.d)

ComplexSub(x, y) == ComplexNorm(x.n * y.d - y.n * x.d, x.im * y.d - y.im * x.d, x.d * y.d)

ComplexMul(x, y) ==
    ComplexNorm(x.n * y.n - x.im * y.im, x.n * y.im + x.im * y.n, x.d * y.d)

ComplexQuo(x, y) ==
    ComplexNorm((x.n * y.n + x.im * y.im) * y.d,
                (x.im * y.n - x.n * y.im) * y.d,
                x.d * (y.n * y.n + y.im * y.im))

-----------------------------------------------------------------------------
(* Errors and results *)

\* The nil error.
nil == <<>>

\* fmt.Errorf(format, args...): the format and the kinds it prints.
Errorf(format, args) == <<format>> \o args

\* var ErrUnsupportedBinaryExpr = errors.New("unsupported binary expression")
ErrUnsupportedBinaryExpr == <<"unsupported binary expression">>

\* Exec returned (val, err) after invoking the continuation calls times.
Return(val, err, calls) == [panicked |-> FALSE, val |-> val, err |-> err, calls |-> calls]

\* Exec did not return: the goroutine panicked with msg.
Panic(msg, calls) == [panicked |-> TRUE, val |-> invalidValue, err |-> <<msg>>, calls |-> calls]

-----------------------------------------------------------------------------
(* The executors.  next is the continuation: invoking it yields            *)
(* (next.val, next.err).                                                   *)

RECURSIVE SeqLess(_, _)
\* Lexical order of two texts.
SeqLess(s, t) ==
    IF t = <<>> THEN FALSE
    ELSE IF s = <<>> THEN TRUE
    ELSE IF Head(s) # Head(t) THEN Head(s) < Head(t)
    ELSE SeqLess(Tail(s), Tail(t))

CompareOrder(op, eq, lt) ==
    CASE op = "EQL" -> eq
      [] op = "NEQ" -> ~eq
      [] op = "LSS" -> lt
      [] op = "LEQ" -> lt \/ eq
      [] op = "GTR" -> ~lt /\ ~eq
      [] op = "GEQ" -> ~lt

\* Comparer.Compare(left, right) for the six comparers: the set of
\* (ok, err) pairs it may return.  Operands of one family compare by value
\* (text lexically); the policy for the other pairs is not fixed, only that
\* Compare returns.
Compare(op, left, right) ==
    LET l == Unwrap(left)
        r == Unwrap(right)
        any == {[ok |-> TRUE, err |-> nil], [ok |-> FALSE, err |-> nil],
                [ok |-> FALSE, err |-> <<"compare">>]}
        one(eq, lt) == {[ok |-> CompareOrder(op, eq, lt), err |-> nil]}
    IN  CASE Kind(l) \in IntKinds /\ Kind(r) \in IntKinds -> one(l.n = r.n, l.n < r.n)
          [] Kind(l) \in UintKinds /\ Kind(r) \in UintKinds -> one(l.n = r.n, l.n < r.n)
          [] Kind(l) \in FloatKinds /\ Kind(r) \in FloatKinds /\ l.d # 0 /\ r.d # 0 ->
                one(l.n * r.d = r.n * l.d, l.n * r.d < r.n * l.d)
          [] Kind(l) = "String" /\ Kind(r) = "String" -> one(l.s = r.s, SeqLess(l.s, r.s))
          [] Kind(l) = "Bool" /\ Kind(r) = "Bool" /\ op \in {"EQL", "NEQ"} ->
                one(l.b = r.b, FALSE)
          [] OTHER -> any

\* ComparerExprExecutor.Exec wrapping the error of next in one of its own.
ComparerExprExecutorExec_WrapsError(op, left, next, cmp) ==
    IF next.err # nil THEN Return(invalidValue, Errorf("compare: %w", next.err), 1)
    ELSE IF cmp.err # nil THEN Return(invalidValue, cmp.err, 1)
    ELSE IF cmp.ok THEN Return(trueValue, nil, 1)
    ELSE Return(falseValue, nil, 1)

\* ComparerExprExecutor.Exec, for the comparer op and the outcome cmp that
\* c.Compare returns when it is reached.
ComparerExprExecutorExec(op, left, next, cmp) ==
    IF next.err # nil THEN Return(invalidValue, next.err, 1)
    ELSE IF cmp.err # nil THEN Return(invalidValue, cmp.err, 1)
    ELSE IF cmp.ok THEN Return(trueValue, nil, 1)
    ELSE Return(falseValue, nil, 1)

EQLExprExecutorExec(left, next, cmp) == ComparerExprExecutorExec("EQL", left, next, cmp)

NEQExprExecutorExec(left, next, cmp) == ComparerExprExecutorExec("NEQ", left, next, cmp)

LSSExprExecutorExec(left, next, cmp) == ComparerExprExecutorExec("LSS", left, next, cmp)

LEQExprExecutorExec(left, next, cmp) == ComparerExprExecutorExec("LEQ", left, next, cmp)

GTRExprExecutorExec(left, next, cmp) == ComparerExprExecutorExec("GTR", left, next, cmp)

GEQExprExecutorExec(left, next, cmp) == ComparerExprExecutorExec("GEQ", left, next, cmp)

\* LANDExprExecutor.Exec.  After the fetch the code tests left.Kind() again,
\* not right.Kind() (line 315).
LANDExprExecutorExec(left0, next) ==
    LET left == Unwrap(left0)
    IN  IF Kind(left) # "Bool"
        THEN Return(invalidValue, Errorf("unsupported expression: %v", <<Kind(left)>>), 0)
        ELSE IF ~left.b THEN Return(left, nil, 0)
        ELSE IF next.err # nil THEN Return(invalidValue, next.err, 1)
        ELSE LET right == Unwrap(next.val)
             IN  IF Kind(left) # "Bool"
                 THEN Return(invalidValue, Errorf("unsupported expression: %v", <<Kind(left)>>), 1)
                 ELSE Return(right, nil, 1)

\* LORExprExecutor.Exec returning the pending operand after the fetch.
LORExprExecutorExec_ReturnsPending(left0, next) ==
    LET left == Unwrap(left0)
    IN  IF Kind(left) # "Bool"
        THEN Return(invalidValue, Errorf("unsupported expression: %v", <<Kind(left)>>), 0)
        ELSE IF left.b THEN Return(left, nil, 0)
        ELSE IF next.err # nil THEN Return(invalidValue, next.err, 1)
        ELSE LET right == Unwrap(next.val)
             IN  IF Kind(right) # "Bool"
                 THEN Return(invalidValue, Errorf("unsupported expression: %v", <<Kind(right)>>), 1)
                 ELSE Return(left, nil, 1)

\* LORExprExecutor.Exec
LORExprExecutorExec(left0, next) ==
    LET left == Unwrap(left0)
    IN  IF Kind(left) # "Bool"
        THEN Return(invalidValue, Errorf("unsupported expression: %v", <<Kind(left)>>), 0)
        ELSE IF left.b THEN Return(left, nil, 0)
        ELSE IF next.err # nil THEN Return(invalidValue, next.err, 1)
        ELSE LET right == Unwrap(next.val)
             IN  IF Kind(right) # "Bool"
                 THEN Return(invalidValue, Errorf("unsupported expression: %v", <<Kind(right)>>), 1)
                 ELSE Return(right, nil, 1)

\* ANDExprExecutor.Exec fetching the other side first, as the arithmetic
\* executors do, and testing the pending operand afterwards.
ANDExprExecutorExec_FetchFirst(right0, next) ==
    IF next.err # nil THEN Return(invalidValue, next.err, 1)
    ELSE LET right == Unwrap(right0)
             left == Unwrap(next.val)
         IN  IF Kind(right) # "Bool"
             THEN Return(invalidValue, Errorf("unsupported and expression: %v", <<Kind(right)>>), 1)
             ELSE IF ~right.b THEN Return(right, nil, 1)
             ELSE IF Kind(left) # "Bool"
             THEN Return(invalidValue, Errorf("unsupported and expression: %v", <<Kind(left)>>), 1)
             ELSE Return(left, nil, 1)

\* ANDExprExecutor.Exec
ANDExprExecutorExec(right0, next) ==
    LET right == Unwrap(right0)
    IN  IF Kind(right) # "Bool"
        THEN Return(invalidValue, Errorf("unsupported and expression: %v", <<Kind(right)>>), 0)
        ELSE IF ~right.b THEN Return(right, nil, 0)
        ELSE IF next.err # nil THEN Return(invalidValue, next.err, 1)
        ELSE LET left == Unwrap(next.val)
             IN  IF Kind(left) # "Bool"
                 THEN Return(invalidValue, Errorf("unsupported and expression: %v", <<Kind(left)>>), 1)
                 ELSE Return(left, nil, 1)

\* ORExprExecutor.Exec without its short-circuit branch: the other side is
\* fetched whatever the pending boolean is.
ORExprExecutorExec_NoShortCircuit(right0, next) ==
    LET right == Unwrap(right0)
    IN  IF Kind(right) # "Bool"
        THEN Return(invalidValue, Errorf("unsupported or expression: %v", <<Kind(right)>>), 0)
        ELSE IF next.err # nil THEN Return(invalidValue, next.err, 1)
        ELSE LET left == Unwrap(next.val)
             IN  IF Kind(left) # "Bool"
                 THEN Return(invalidValue, Errorf("unsupported or expression: %v", <<Kind(left)>>), 1)
                 ELSE Return(BoolOf(right.b \/ left.b), nil, 1)

\* ORExprExecutor.Exec
ORExprExecutorExec(right0, next) ==
    LET right == Unwrap(right0)
    IN  IF Kind(right) # "Bool"
        THEN Return(invalidValue, Errorf("unsupported or expression: %v", <<Kind(right)>>), 0)
        ELSE IF right.b THEN Return(right, nil, 0)
        ELSE IF next.err # nil THEN Return(invalidValue, next.err, 1)
        ELSE LET left == Unwrap(next.val)
             IN  IF Kind(left) # "Bool"
                 THEN Return(invalidValue, Errorf("unsupported or expression: %v", <<Kind(left)>>), 1)
                 ELSE Return(left, nil, 1)

\* NOTExprExecutor.Exec.  right.Bool() is called on the fetched value as it
\* is, without Unwrap: Value.Bool panics on any kind but Bool.
NOTExprExecutorExec(pending, next) ==
    IF next.err # nil THEN Return(invalidValue, next.err, 1)
    ELSE LET right == next.val
         IN  IF Kind(right) # "Bool"
             THEN Panic("reflect: call of reflect.Value.Bool on non-bool Value", 1)
             ELSE Return(BoolOf(~right.b), nil, 1)

\* LPARENExprExecutor.Exec returning the invalid value beside an error, as the
\* other executors do.
LPARENExprExecutorExec_InvalidOnError(pending, next) ==
    IF next.err # nil THEN Return(invalidValue, next.err, 1) ELSE Return(next.val, nil, 1)

\* LPARENExprExecutor.Exec invoking the continuation a second time.
LPARENExprExecutorExec_FetchTwice(pending, next) == Return(next.val, next.err, 2)

\* LPARENExprExecutor.Exec
LPARENExprExecutorExec(pending, next) == Return(next.val, next.err, 1)

\* RPARENExprExecutor.Exec unwrapping its operand, as the logical executors do.
RPARENExprExecutorExec_Unwraps(right, next) == Return(Unwrap(right), nil, 0)

\* RPARENExprExecutor.Exec
RPARENExprExecutorExec(right, next) == Return(right, nil, 0)

\* COMMENTExprExecutor.Exec
COMMENTExprExecutorExec(pending, next) == Return(BoolOf(TRUE), nil, 0)

-----------------------------------------------------------------------------
(* The operators of Go on int64 and uint64 operands *)

\* x + y, x - y, x * y, x / y, x % y on int64
AddInt64(x, y) == WrapInt64(x + y)

\* x - y with the operands exchanged.
SubInt64_Swapped(x, y) == WrapInt64(y - x)

SubInt64(x, y) == WrapInt64(x - y)

MulInt64(x, y) == WrapInt64(x * y)

QuoInt64(x, y) == WrapInt64(TruncQuo(x, y))

RemInt64(x, y) == WrapInt64(TruncRem(x, y))

\* x + y, x - y, x * y, x / y, x % y on uint64
AddUint64(x, y) == WrapUint64(x + y)

SubUint64(x, y) == WrapUint64(x - y)

MulUint64(x, y) == WrapUint64(x * y)

QuoUint64(x, y) == x \div y

RemUint64(x, y) == x % y

\* ADDExprExecutor.Exec: the pending operand is named right, the fetched one left.
ADDExprExecutorExec(right0, next) ==
    IF next.err # nil THEN Return(invalidValue, next.err, 1)
    ELSE LET right == Unwrap(right0)
             left == Unwrap(next.val)
             unsupported ==
                 Return(invalidValue,
                        Errorf("unsupported expression: %v, %v", <<Kind(right), Kind(left)>>), 1)
         IN  CASE Kind(right) \in IntKinds ->
                   IF Kind(left) \in IntKinds
                   THEN Return(Int64Of(AddInt64(right.n, left.n)), nil, 1)
                   ELSE IF Kind(left) \in UintKinds
                   THEN Return(Uint64Of(AddUint64(ToUint64(right.n), left.n)), nil, 1)
                   ELSE unsupported
               [] Kind(right) \in UintKinds ->
                   IF Kind(left) \in IntKinds
                   THEN Return(Uint64Of(AddUint64(right.n, ToUint64(left.n))), nil, 1)
                   ELSE IF Kind(left) \in UintKinds
                   THEN Return(Uint64Of(AddUint64(right.n, left.n)), nil, 1)
                   ELSE unsupported
               [] Kind(right) \in FloatKinds ->
                   IF Kind(left) \in FloatKinds
                   THEN Return(Float64Of(FloatAdd(right, left)), nil, 1)
                   ELSE unsupported
               [] Kind(right) = "String" ->
                   IF Kind(left) = "String"
                   THEN Return(StringOf(right.s \o left.s), nil, 1)
                   ELSE unsupported
               [] Kind(right) \in ComplexKinds ->
                   IF Kind(left) \in ComplexKinds
                   THEN Return(Complex128Of(ComplexAdd(right, left)), nil, 1)
                   ELSE unsupported
               [] OTHER -> unsupported

\* SUBExprExecutor.Exec with the text case of ADDExprExecutor.Exec copied in.
SUBExprExecutorExec_WithText(right0, next) ==
    IF next.err # nil THEN Return(invalidValue, next.err, 1)
    ELSE LET right == Unwrap(right0)
             left == Unwrap(next.val)
             unsupported ==
                 Return(invalidValue,
                        Errorf("unsupported expression: %v, %v", <<Kind(right), Kind(left)>>), 1)
         IN  CASE Kind(right) \in IntKinds ->
                   IF Kind(left) \in IntKinds
                   THEN Return(Int64Of(SubInt64(right.n, left.n)), nil, 1)
                   ELSE IF Kind(left) \in UintKinds
                   THEN Return(Uint64Of(SubUint64(ToUint64(right.n), left.n)), nil, 1)
                   ELSE unsupported
               [] Kind(right) \in UintKinds ->
                   IF Kind(left) \in IntKinds
                   THEN Return(Uint64Of(SubUint64(right.n, ToUint64(left.n))), nil, 1)
                   ELSE IF Kind(left) \in UintKinds
                   THEN Return(Uint64Of(SubUint64(right.n, left.n)), nil, 1)
                   ELSE unsupported
               [] Kind(right) \in FloatKinds ->
                   IF Kind(left) \in FloatKinds
                   THEN Return(Float64Of(FloatSub(right, left)), nil, 1)
                   ELSE unsupported
               [] Kind(right) = "String" ->
                   IF Kind(left) = "String"
                   THEN Return(StringOf(right.s \o left.s), nil, 1)
                   ELSE unsupported
               [] Kind(right) \in ComplexKinds ->
                   IF Kind(left) \in ComplexKinds
                   THEN Return(Complex128Of(ComplexSub(right, left)), nil, 1)
                   ELSE unsupported
               [] OTHER -> unsupported

\* SUBExprExecutor.Exec: the pending operand is named right, the fetched one left.
SUBExprExecutorExec(right0, next) ==
    IF next.err # nil THEN Return(invalidValue, next.err, 1)
    ELSE LET right == Unwrap(right0)
             left == Unwrap(next.val)
             unsupported ==
                 Return(invalidValue,
                        Errorf("unsupported expression: %v, %v", <<Kind(right), Kind(left)>>), 1)
         IN  CASE Kind(right) \in IntKinds ->
                   IF Kind(left) \in IntKinds
                   THEN Return(Int64Of(SubInt64(right.n, left.n)), nil, 1)
                   ELSE IF Kind(left) \in UintKinds
                   THEN Return(Uint64Of(SubUint64(ToUint64(right.n), left.n)), nil, 1)
                   ELSE unsupported
               [] Kind(right) \in UintKinds ->
                   IF Kind(left) \in IntKinds
                   THEN Return(Uint64Of(SubUint64(right.n, ToUint64(left.n))), nil, 1)
                   ELSE IF Kind(left) \in UintKinds
                   THEN Return(Uint64Of(SubUint64(right.n, left.n)), nil, 1)
                   ELSE unsupported
               [] Kind(right) \in FloatKinds ->
                   IF Kind(left) \in FloatKinds
                   THEN Return(Float64Of(FloatSub(right, left)), nil, 1)
                   ELSE unsupported
               [] Kind(right) \in ComplexKinds ->
                   IF Kind(left) \in ComplexKinds
                   THEN Return(Complex128Of(ComplexSub(right, left)), nil, 1)
                   ELSE unsupported
               [] OTHER -> unsupported

\* MULExprExecutor.Exec: the pending operand is named right, the fetched one left.
MULExprExecutorExec(right0, next) ==
    IF next.err # nil THEN Return(invalidValue, next.err, 1)
    ELSE LET right == Unwrap(right0)
             left == Unwrap(next.val)
             unsupported ==
                 Return(invalidValue,
                        Errorf("unsupported expression: %v, %v", <<Kind(right), Kind(left)>>), 1)
         IN  CASE Kind(right) \in IntKinds ->
                   IF Kind(left) \in IntKinds
                   THEN Return(Int64Of(MulInt64(right.n, left.n)), nil, 1)
                   ELSE IF Kind(left) \in UintKinds
                   THEN Return(Uint64Of(MulUint64(ToUint64(right.n), left.n)), nil, 1)
                   ELSE unsupported
               [] Kind(right) \in UintKinds ->
                   IF Kind(left) \in IntKinds
                   THEN Return(Uint64Of(MulUint64(right.n, ToUint64(left.n))), nil, 1)
                   ELSE IF Kind(left) \in UintKinds
                   THEN Return(Uint64Of(MulUint64(right.n, left.n)), nil, 1)
                   ELSE unsupported
               [] Kind(right) \in FloatKinds ->
                   IF Kind(left) \in FloatKinds
                   THEN Return(Float64Of(FloatMul(right, left)), nil, 1)
                   ELSE unsupported
               [] Kind(right) \in ComplexKinds ->
                   IF Kind(left) \in ComplexKinds
                   THEN Return(Complex128Of(ComplexMul(right, left)), nil, 1)
                   ELSE unsupported
               [] OTHER -> unsupported

\* QUOExprExecutor.Exec: the pending operand is named right, the fetched one left.
\* An integer division by zero is a run-time panic in Go; no case tests the divisor.
QUOExprExecutorExec(right0, next) ==
    IF next.err # nil THEN Return(invalidValue, next.err, 1)
    ELSE LET right == Unwrap(right0)
             left == Unwrap(next.val)
             unsupported ==
                 Return(invalidValue,
                        Errorf("unsupported expression: %v, %v", <<Kind(right), Kind(left)>>), 1)
         IN  CASE Kind(right) \in IntKinds ->
                   IF Kind(left) \in IntKinds
                   THEN (IF left.n = 0
                         THEN Panic("runtime error: integer divide by zero", 1)
                         ELSE Return(Int64Of(QuoInt64(right.n, left.n)), nil, 1))
                   ELSE IF Kind(left) \in UintKinds
                   THEN (IF left.n = 0
                         THEN Panic("runtime error: integer divide by zero", 1)
                         ELSE Return(Uint64Of(QuoUint64(ToUint64(right.n), left.n)), nil, 1))
                   ELSE unsupported
               [] Kind(right) \in UintKinds ->
                   IF Kind(left) \in IntKinds
                   THEN (IF ToUint64(left.n) = 0
                         THEN Panic("runtime error: integer divide by zero", 1)
                         ELSE Return(Uint64Of(QuoUint64(right.n, ToUint64(left.n))), nil, 1))
                   ELSE IF Kind(left) \in UintKinds
                   THEN (IF left.n = 0
                         THEN Panic("runtime error: integer divide by zero", 1)
                         ELSE Return(Uint64Of(QuoUint64(right.n, left.n)), nil, 1))
                   ELSE unsupported
               [] Kind(right) \in FloatKinds ->
                   IF Kind(left) \in FloatKinds
                   THEN Return(Float64Of(FloatQuo(right, left)), nil, 1)
                   ELSE unsupported
               [] Kind(right) \in ComplexKinds ->
                   IF Kind(left) \in ComplexKinds
                   THEN Return(Complex128Of(ComplexQuo(right, left)), nil, 1)
                   ELSE unsupported
               [] OTHER -> unsupported

\* REMExprExecutor.Exec: the pending operand is named right, the fetched one left.
\* An integer remainder by zero is a run-time panic in Go; no case tests the divisor.
REMExprExecutorExec(right0, next) ==
    IF next.err # nil THEN Return(invalidValue, next.err, 1)
    ELSE LET right == Unwrap(right0)
             left == Unwrap(next.val)
             unsupported ==
                 Return(invalidValue,
                        Errorf("unsupported expression: %v, %v", <<Kind(right), Kind(left)>>), 1)
         IN  CASE Kind(right) \in IntKinds ->
                   IF Kind(left) \in IntKinds
                   THEN (IF left.n = 0
                         THEN Panic("runtime error: integer divide by zero", 1)
                         ELSE Return(Int64Of(RemInt64(right.n, left.n)), nil, 1))
                   ELSE IF Kind(left) \in UintKinds
                   THEN (IF left.n = 0
                         THEN Panic("runtime error: integer divide by zero", 1)
                         ELSE Return(Uint64Of(RemUint64(ToUint64(right.n), left.n)), nil, 1))
                   ELSE unsupported
               [] Kind(right) \in UintKinds ->
                   IF Kind(left) \in IntKinds
                   THEN (IF ToUint64(left.n) = 0
                         THEN Panic("runtime error: integer divide by zero", 1)
                         ELSE Return(Uint64Of(RemUint64(right.n, ToUint64(left.n))), nil, 1))
                   ELSE IF Kind(left) \in UintKinds
                   THEN (IF left.n = 0
                         THEN Panic("runtime error: integer divide by zero", 1)
                         ELSE Return(Uint64Of(RemUint64(right.n, left.n)), nil, 1))
                   ELSE unsupported
               [] OTHER -> unsupported

-----------------------------------------------------------------------------
(* Inputs *)

Chars == {97, 98}

Texts == UNION {[1..k -> Chars] : k \in 0..MaxLen}

FloatInputs == {0, 1, 2}

ComplexInputs == {<<0, 0>>, <<1, 0>>, <<0, 1>>, <<1, 1>>}

OtherKinds == {"Slice", "Uintptr"}

PlainValues ==
    {invalidValue, trueValue, falseValue}
    \cup {[invalidValue EXCEPT !.kind = k, !.n = x] : k \in IntKinds, x \in MinInt64..MaxInt64}
    \cup {[invalidValue EXCEPT !.kind = k, !.n = x] : k \in UintKinds, x \in 0..MaxUint64}
    \cup {[invalidValue EXCEPT !.kind = k, !.n = x] : k \in FloatKinds, x \in FloatInputs}
    \cup {[invalidValue EXCEPT !.kind = k, !.n = c[1], !.im = c[2]] :
            k \in ComplexKinds, c \in ComplexInputs}
    \cup {StringOf(t) : t \in Texts}
    \cup {[invalidValue EXCEPT !.kind = k] : k \in OtherKinds}

\* Operands behind pointers: *bool, **bool, the nil pointer, *int64, *uint64,
\* *float64, *string.
PointerValues ==
    {PtrTo(trueValue), PtrTo(falseValue), PtrTo(PtrTo(trueValue)), PtrTo(invalidValue),
     PtrTo(Int64Of(-1)), PtrTo(Uint64Of(1)), PtrTo(Float64Of([n |-> 1, d |-> 1])),
     PtrTo(StringOf(<<97>>))}

Values == PlainValues \cup PointerValues

\* The errors a continuation fails with.
NextErrors == {<<"ErrA">>, <<"ErrB">>}

\* What a continuation does when invoked: it yields a value, or it fails with
\* an error and some value beside it.
Continuations ==
    {[val |-> v, err |-> nil] : v \in Values}
    \cup {[val |-> v, err |-> e] : v \in {invalidValue, trueValue}, e \in NextErrors}

Tokens ==
    {"EQL", "NEQ", "LSS", "LEQ", "GTR", "GEQ", "LAND", "LOR", "ADD", "SUB", "MUL",
     "QUO", "REM", "LPAREN", "RPAREN", "COMMENT", "NOT", "AND", "OR"}

\* Tokens of go/token that FromToken has no case for.
OtherTokens ==
    {"ILLEGAL", "EOF", "IDENT", "INT", "FLOAT", "IMAG", "CHAR", "STRING", "SHL", "SHR",
     "XOR", "AND_NOT", "ADD_ASSIGN", "ASSIGN", "ARROW", "INC", "DEC", "DEFINE",
     "ELLIPSIS", "LBRACK", "LBRACE", "COMMA", "PERIOD", "RBRACK", "RBRACE",
     "SEMICOLON", "COLON", "TILDE", "IF", "RETURN"}

GoTokens == Tokens \cup OtherTokens

-----------------------------------------------------------------------------
(* The registry *)

\* FromToken returned (executor, err); the executor is named by its type and
\* "nil" is the nil interface.
Found(executor) == [executor |-> executor, err |-> nil]

\* FromToken with a default executor instead of the error.
FromToken_Default(t) ==
    CASE t = "EQL" -> Found("EQLExprExecutor")
      [] t = "NEQ" -> Found("NEQExprExecutor")
      [] t = "LSS" -> Found("LSSExprExecutor")
      [] t = "LEQ" -> Found("LEQExprExecutor")
      [] t = "GTR" -> Found("GTRExprExecutor")
      [] t = "GEQ" -> Found("GEQExprExecutor")
      [] t = "LAND" -> Found("LANDExprExecutor")
      [] t = "LOR" -> Found("LORExprExecutor")
      [] t = "ADD" -> Found("ADDExprExecutor")
      [] t = "SUB" -> Found("SUBExprExecutor")
      [] t = "MUL" -> Found("MULExprExecutor")
      [] t = "QUO" -> Found("QUOExprExecutor")
      [] t = "REM" -> Found("REMExprExecutor")
      [] t = "LPAREN" -> Found("LPARENExprExecutor")
      [] t = "RPAREN" -> Found("RPARENExprExecutor")
      [] t = "COMMENT" -> Found("COMMENTExprExecutor")
      [] t = "NOT" -> Found("NOTExprExecutor")
      [] t = "AND" -> Found("ANDExprExecutor")
      [] t = "OR" -> Found("ORExprExecutor")
      [] OTHER -> Found("COMMENTExprExecutor")

\* FromToken
FromToken(t) ==
    CASE t = "EQL" -> Found("EQLExprExecutor")
      [] t = "NEQ" -> Found("NEQExprExecutor")
      [] t = "LSS" -> Found("LSSExprExecutor")
      [] t = "LEQ" -> Found("LEQExprExecutor")
      [] t = "GTR" -> Found("GTRExprExecutor")
      [] t = "GEQ" -> Found("GEQExprExecutor")
      [] t = "LAND" -> Found("LANDExprExecutor")
      [] t = "LOR" -> Found("LORExprExecutor")
      [] t = "ADD" -> Found("ADDExprExecutor")
      [] t = "SUB" -> Found("SUBExprExecutor")
      [] t = "MUL" -> Found("MULExprExecutor")
      [] t = "QUO" -> Found("QUOExprExecutor")
      [] t = "REM" -> Found("REMExprExecutor")
      [] t = "LPAREN" -> Found("LPARENExprExecutor")
      [] t = "RPAREN" -> Found("RPARENExprExecutor")
      [] t = "COMMENT" -> Found("COMMENTExprExecutor")
      [] t = "NOT" -> Found("NOTExprExecutor")
      [] t = "AND" -> Found("ANDExprExecutor")
      [] t = "OR" -> Found("ORExprExecutor")
      [] OTHER -> [executor |-> "nil", err |-> ErrUnsupportedBinaryExpr]

-----------------------------------------------------------------------------
(* Package juice: Transaction, NestedTransaction (src/unnamed/part_000,     *)
(* 25-118) and BatchSQLRowsStatementHandler.ExecContext (184-233).          *)
(*                                                                         *)
(* An error is the list of the errors errors.Is finds in it: nil is the     *)
(* empty list, errors.Join concatenates.  A call is one action; what the    *)
(* manager, the handler and the driver do is drawn as an input, and the     *)
(* calls made on them are logged in order.                                  *)

\* Width of int in the model.
IntBits == 4
\* Longest slice passed as the param of ExecContext.
MaxParamLen == 3

MaxInt == 2 ^ (IntBits - 1) - 1
MinInt == -(2 ^ (IntBits - 1))

\* int results wrap into [MinInt, MaxInt].
WrapInt(x) == ((x - MinInt) % (2 ^ IntBits)) + MinInt

\* var ErrInvalidManager = errors.New("juice: invalid manager")
ErrInvalidManager == <<"juice: invalid manager">>

\* var ErrCommitOnSpecific = errors.New("juice: commit on specific transaction")
ErrCommitOnSpecific == <<"juice: commit on specific transaction">>

\* sql.ErrTxDone
ErrTxDone == <<"sql: transaction has already been committed or rolled back">>

\* errors.Is(err, target), for a target that is a single error
Is(err, target) == \E i \in 1..Len(err) : err[i] = target[1]

\* A Join that keeps only the second error when there is one.
Join_KeepsLast(a, b) == IF b # nil THEN b ELSE a

\* errors.Join(a, b)
Join(a, b) == a \o b

\* What ManagerFromContext(ctx) can hold: the engine, a transaction manager,
\* or nothing.
Managers == {"Engine", "TxManager", "nil"}

\* manager.(*Engine)
IsEngine(manager) == manager = "Engine"

\* IsTxManager(manager)
IsTxManager(manager) == manager = "TxManager"

\* The handler returned err, or panicked.
HandlerOutcomes ==
    {[panicked |-> FALSE, err |-> e] :
        e \in {nil, <<"ErrHandler">>, ErrCommitOnSpecific, <<"ErrHandler">> \o ErrCommitOnSpecific}}
    \cup {[panicked |-> TRUE, err |-> <<"handler panic">>]}

\* The arguments of Transaction and NestedTransaction and what the
\* collaborators answer: opts, the manager in ctx, and the results of
\* tx.Begin, handler, tx.Commit and tx.Rollback.
TxInputs ==
    [opts : {<<>>, <<"WithReadOnly">>},
     manager : Managers,
     begin : {nil, <<"ErrBegin">>},
     handler : HandlerOutcomes,
     commit : {nil, <<"ErrCommit">>},
     rollback : {nil, ErrTxDone, <<"ErrRollback">>, <<"ErrRollback">> \o ErrTxDone}]

\* The function returned err (or panicked) after the calls of log;
\* options is what engine.ContextTx received.
TxReturn(err, log, options) ==
    [panicked |-> FALSE, err |-> err, log |-> log, options |-> options]

TxPanic(msg, log, options) ==
    [panicked |-> TRUE, err |-> msg, log |-> log, options |-> options]

\* A deferred function that joins every Rollback error.
DeferredRollback_JoinsAlways(in, err) == Join(err, in.rollback)

\* The deferred function of Transaction: tx.Rollback(), whose error is joined
\* to the named result err unless it is sql.ErrTxDone.
DeferredRollback(in, err) ==
    IF in.rollback # nil /\ ~Is(in.rollback, ErrTxDone) THEN Join(err, in.rollback) ELSE err

\* A Transaction that commits whatever the handler returned.
Transaction_CommitsOnError(in) ==
    LET options == IF Len(in.opts) > 0 THEN "new(sql.TxOptions)" ELSE "nil"
    IN  IF ~IsEngine(in.manager) THEN TxReturn(ErrInvalidManager, <<>>, "none")
        ELSE IF in.begin # nil THEN TxReturn(in.begin, <<"Begin">>, options)
        ELSE IF in.handler.panicked
        THEN TxPanic(in.handler.err, <<"Begin", "handler(txCtx)", "Rollback">>, options)
        ELSE TxReturn(DeferredRollback(in, Join(in.handler.err, in.commit)),
                      <<"Begin", "handler(txCtx)", "Commit", "Rollback">>, options)

\* Transaction
Transaction(in) ==
    LET options == IF Len(in.opts) > 0 THEN "new(sql.TxOptions)" ELSE "nil"
    IN  IF ~IsEngine(in.manager) THEN TxReturn(ErrInvalidManager, <<>>, "none")
        ELSE IF in.begin # nil THEN TxReturn(in.begin, <<"Begin">>, options)
        ELSE IF in.handler.panicked
        THEN TxPanic(in.handler.err, <<"Begin", "handler(txCtx)", "Rollback">>, options)
        ELSE IF in.handler.err # nil /\ ~Is(in.handler.err, ErrCommitOnSpecific)
        THEN TxReturn(DeferredRollback(in, in.handler.err),
                      <<"Begin", "handler(txCtx)", "Rollback">>, options)
        ELSE TxReturn(DeferredRollback(in, Join(in.handler.err, in.commit)),
                      <<"Begin", "handler(txCtx)", "Commit", "Rollback">>, options)

\* A NestedTransaction that begins a transaction of its own in every case.
NestedTransaction_AlwaysBegins(in) == Transaction(in)

\* NestedTransaction
NestedTransaction(in) ==
    IF IsTxManager(in.manager)
    THEN [panicked |-> in.handler.panicked, err |-> in.handler.err,
          log |-> <<"handler(ctx)">>, options |-> "none"]
    ELSE Transaction(in)

\* The arguments of ExecContext and what the collaborators answer: the
\* statement's action and batchSize attribute (absent, not a number, or the
\* number size), the kind and length of the param, and the call of
\* execContext that fails (0: none).
BatchInputs ==
    [action : {"Insert", "Update"},
     attr : {"absent", "invalid", "number"},
     size : {-1, 0} \cup 1..MaxInt,
     kind : {"Slice", "Array", "Struct"},
     length : 0..MaxParamLen,
     failAt : 0..MaxParamLen]

\* ExecContext returned (result, err), or panicked, after calling execContext
\* on the ranges of batches, in order, and whole times on the whole param.
\* Results are numbered by the call that returned them; 0 is the nil result.
BatchReturn(res, err, batches, whole) ==
    [panicked |-> FALSE, res |-> res, err |-> err, batches |-> batches, whole |-> whole]

\* b.execContext(ctx, statement, param) on the whole param
Delegate(in) ==
    IF in.failAt = 1 THEN BatchReturn(0, <<"ErrExec">>, <<>>, 1)
    ELSE BatchReturn(1, nil, <<>>, 1)

RECURSIVE BatchLoop(_, _, _, _, _)
\* The loop of ExecContext from iteration i on, with result res so far.
BatchLoop(in, times, i, res, batches) ==
    IF ~(i < times) THEN BatchReturn(res, nil, batches, 0)
    ELSE LET start == WrapInt(i * in.size)
             end0 == WrapInt((i + 1) * in.size)
             end == IF end0 > in.length THEN in.length ELSE end0
             done == Append(batches, <<start, end>>)
         IN  IF start < 0 \/ end < start \/ end > in.length
             THEN [panicked |-> TRUE, res |-> 0,
                   err |-> <<"reflect: slice index out of bounds">>,
                   batches |-> batches, whole |-> 0]
             ELSE IF in.failAt = i + 1 THEN BatchReturn(0, <<"ErrExec">>, done, 0)
             ELSE BatchLoop(in, times, i + 1, i + 1, done)

\* BatchSQLRowsStatementHandler.ExecContext
ExecContext(in) ==
    IF in.action # "Insert" THEN Delegate(in)
    ELSE IF in.attr = "absent" THEN Delegate(in)
    ELSE IF in.attr = "invalid"
    THEN BatchReturn(0, <<"strconv.ParseInt", "failed to parse batch size: %s">>, <<>>, 0)
    ELSE IF in.size <= 0
    THEN BatchReturn(0, <<"batch size must be greater than 0">>, <<>>, 0)
    ELSE IF in.kind \notin {"Slice", "Array"}
    THEN BatchReturn(0, <<"errSliceOrArrayRequired">>, <<>>, 0)
    ELSE IF in.length = 0 THEN BatchReturn(0, <<"invalid param length">>, <<>>, 0)
    ELSE LET times == TruncQuo(WrapInt(WrapInt(in.length + in.size) - 1), in.size)
         IN  BatchLoop(in, times, 0, 0, <<>>)

-----------------------------------------------------------------------------
(* The state machine: one Exec call at a time *)

VARIABLES pc, token, pending, cont, result, lookup

\* Package juice: the function called, its inputs, and what it did.
VARIABLES fn, txIn, txOut, batchIn, batchOut

\* No lookup has been made.
NoLookup == [executor |-> "none", err |-> nil]

juiceVars == <<fn, txIn, txOut, batchIn, batchOut>>

vars == <<pc, token, pending, cont, result, lookup, juiceVars>>

\* No call of package juice is in progress.
NoTxIn ==
    [opts |-> <<>>, manager |-> "nil", begin |-> nil,
     handler |-> [panicked |-> FALSE, err |-> nil], commit |-> nil, rollback |-> nil]

NoBatchIn ==
    [action |-> "Update", attr |-> "absent", size |-> 0, kind |-> "Struct",
     length |-> 0, failAt |-> 0]

JuiceIdle ==
    /\ fn = "none"
    /\ txIn = NoTxIn
    /\ txOut = TxReturn(nil, <<>>, "none")
    /\ batchIn = NoBatchIn
    /\ batchOut = BatchReturn(0, nil, <<>>, 0)

Init ==
    /\ pc = "idle"
    /\ token = "none"
    /\ pending = invalidValue
    /\ cont = [val |-> invalidValue, err |-> nil]
    /\ result = Return(invalidValue, nil, 0)
    /\ lookup = NoLookup
    /\ JuiceIdle

\* The executor of token t ran on (p, c) and ended with r.
Call(t, p, c, r) ==
    /\ pc' = "done"
    /\ token' = t
    /\ pending' = p
    /\ cont' = c
    /\ result' = r
    /\ lookup' = lookup
    /\ UNCHANGED juiceVars

ExecEQL ==
    /\ pc = "idle"
    /\ \E p \in Values, c \in Continuations : \E cmp \in Compare("EQL", p, c.val) :
        Call("EQL", p, c, EQLExprExecutorExec(p, c, cmp))

ExecNEQ ==
    /\ pc = "idle"
    /\ \E p \in Values, c \in Continuations : \E cmp \in Compare("NEQ", p, c.val) :
        Call("NEQ", p, c, NEQExprExecutorExec(p, c, cmp))

ExecLSS ==
    /\ pc = "idle"
    /\ \E p \in Values, c \in Continuations : \E cmp \in Compare("LSS", p, c.val) :
        Call("LSS", p, c, LSSExprExecutorExec(p, c, cmp))

ExecLEQ ==
    /\ pc = "idle"
    /\ \E p \in Values, c \in Continuations : \E cmp \in Compare("LEQ", p, c.val) :
        Call("LEQ", p, c, LEQExprExecutorExec(p, c, cmp))

ExecGTR ==
    /\ pc = "idle"
    /\ \E p \in Values, c \in Continuations : \E cmp \in Compare("GTR", p, c.val) :
        Call("GTR", p, c, GTRExprExecutorExec(p, c, cmp))

ExecGEQ ==
    /\ pc = "idle"
    /\ \E p \in Values, c \in Continuations : \E cmp \in Compare("GEQ", p, c.val) :
        Call("GEQ", p, c, GEQExprExecutorExec(p, c, cmp))

ExecLAND ==
    /\ pc = "idle"
    /\ \E p \in Values, c \in Continuations : Call("LAND", p, c, LANDExprExecutorExec(p, c))

ExecLOR ==
    /\ pc = "idle"
    /\ \E p \in Values, c \in Continuations : Call("LOR", p, c, LORExprExecutorExec(p, c))

ExecADD ==
    /\ pc = "idle"
    /\ \E p \in Values, c \in Continuations : Call("ADD", p, c, ADDExprExecutorExec(p, c))

ExecSUB ==
    /\ pc = "idle"
    /\ \E p \in Values, c \in Continuations : Call("SUB", p, c, SUBExprExecutorExec(p, c))

ExecMUL ==
    /\ pc = "idle"
    /\ \E p \in Values, c \in Continuations : Call("MUL", p, c, MULExprExecutorExec(p, c))

ExecQUO ==
    /\ pc = "idle"
    /\ \E p \in Values, c \in Continuations : Call("QUO", p, c, QUOExprExecutorExec(p, c))

ExecREM ==
    /\ pc = "idle"
    /\ \E p \in Values, c \in Continuations : Call("REM", p, c, REMExprExecutorExec(p, c))

ExecLPAREN ==
    /\ pc = "idle"
    /\ \E p \in Values, c \in Continuations : Call("LPAREN", p, c, LPARENExprExecutorExec(p, c))

ExecRPAREN ==
    /\ pc = "idle"
    /\ \E p \in Values, c \in Continuations : Call("RPAREN", p, c, RPARENExprExecutorExec(p, c))

ExecCOMMENT ==
    /\ pc = "idle"
    /\ \E p \in Values, c \in Continuations : Call("COMMENT", p, c, COMMENTExprExecutorExec(p, c))

ExecNOT ==
    /\ pc = "idle"
    /\ \E p \in Values, c \in Continuations : Call("NOT", p, c, NOTExprExecutorExec(p, c))

ExecAND ==
    /\ pc = "idle"
    /\ \E p \in Values, c \in Continuations : Call("AND", p, c, ANDExprExecutorExec(p, c))

ExecOR ==
    /\ pc = "idle"
    /\ \E p \in Values, c \in Continuations : Call("OR", p, c, ORExprExecutorExec(p, c))

\* FromToken(t) was called, for any token t of go/token.
LookupToken ==
    /\ pc = "idle"
    /\ \E t \in GoTokens :
          /\ pc' = "looked"
          /\ token' = t
          /\ lookup' = FromToken(t)
          /\ UNCHANGED <<pending, cont, result, juiceVars>>

\* The call is over: its operands and its result are dropped.
Discard ==
    /\ pc # "idle"
    /\ pc' = "idle"
    /\ token' = "none"
    /\ pending' = invalidValue
    /\ cont' = [val |-> invalidValue, err |-> nil]
    /\ result' = Return(invalidValue, nil, 0)
    /\ lookup' = NoLookup
    /\ UNCHANGED juiceVars

Next ==
    \/ ExecEQL \/ ExecNEQ \/ ExecLSS \/ ExecLEQ \/ ExecGTR \/ ExecGEQ
    \/ ExecLAND \/ ExecLOR
    \/ ExecADD \/ ExecSUB \/ ExecMUL \/ ExecQUO \/ ExecREM
    \/ ExecLPAREN \/ ExecRPAREN \/ ExecCOMMENT
    \/ ExecNOT \/ ExecAND \/ ExecOR
    \/ LookupToken
    \/ Discard

Spec == Init /\ [][Next]_vars

exprVars == <<pc, token, pending, cont, result, lookup>>

\* Transaction(ctx, handler, opts...) was called.
CallTransaction ==
    /\ fn = "none"
    /\ \E in \in TxInputs :
          /\ fn' = "Transaction"
          /\ txIn' = in
          /\ txOut' = Transaction(in)
    /\ UNCHANGED <<batchIn, batchOut, exprVars>>

\* NestedTransaction(ctx, handler, opts...) was called.
CallNestedTransaction ==
    /\ fn = "none"
    /\ \E in \in TxInputs :
          /\ fn' = "NestedTransaction"
          /\ txIn' = in
          /\ txOut' = NestedTransaction(in)
    /\ UNCHANGED <<batchIn, batchOut, exprVars>>

\* b.ExecContext(ctx, statement, param) was called.
CallExecContext ==
    /\ fn = "none"
    /\ \E in \in BatchInputs :
          /\ fn' = "ExecContext"
          /\ batchIn' = in
          /\ batchOut' = ExecContext(in)
    /\ UNCHANGED <<txIn, txOut, exprVars>>

\* The call is over.
JuiceReturn ==
    /\ fn # "none"
    /\ fn' = "none"
    /\ txIn' = NoTxIn
    /\ txOut' = TxReturn(nil, <<>>, "none")
    /\ batchIn' = NoBatchIn
    /\ batchOut' = BatchReturn(0, nil, <<>>, 0)
    /\ UNCHANGED exprVars

NextJuice ==
    \/ CallTransaction
    \/ CallNestedTransaction
    \/ CallExecContext
    \/ JuiceReturn

SpecJuice == Init /\ [][NextJuice]_vars

TypeOK ==
    /\ pc \in {"idle", "done", "looked"}
    /\ token \in GoTokens \cup {"none"}
    /\ pc = "done" => token \in Tokens
    /\ result.panicked \in BOOLEAN
    /\ result.calls \in Nat
    /\ pc = "idle" => token = "none"
    /\ fn \in {"none", "Transaction", "NestedTransaction", "ExecContext"}
    /\ txIn \in TxInputs
    /\ batchIn \in BatchInputs
    /\ txOut.panicked \in BOOLEAN
    /\ batchOut.panicked \in BOOLEAN
    /\ fn = "none" => JuiceIdle

-----------------------------------------------------------------------------
(* Properties of the logical executors *)

LogicalTokens == {"LAND", "AND", "LOR", "OR"}

AndTokens == {"LAND", "AND"}

\* The pending and the fetched operand, with their pointers followed.
P == Unwrap(pending)

F == Unwrap(cont.val)

\* An Exec call of one of the tokens ts has ended.
Done(ts) == pc = "done" /\ token \in ts

\* The pending boolean alone decides the result of the call.
ShortCircuits == Kind(P) = "Bool" /\ P.b = (token \notin AndTokens)

\* C1: when the pending operand is false (LAND, AND) or true (LOR, OR), Exec
\* returns that boolean with a nil error and never invokes the continuation,
\* whatever the continuation would have done.
C1_ShortCircuit ==
    (Done(LogicalTokens) /\ ShortCircuits) =>
        /\ ~result.panicked
        /\ result.err = nil
        /\ result.val = P
        /\ result.calls = 0

\* C1 witness: OR on a true operand with a continuation that would fail.
C1_Witness ==
    /\ Done({"OR"})
    /\ pending = trueValue
    /\ cont.err # nil
    /\ result = Return(trueValue, nil, 0)

\* C2: on booleans a (pending) and b (fetched without error), LAND and AND
\* return a /\ b, LOR and OR return a \/ b, with a nil error, and the executor
\* of the other family returns the same pair on the same inputs.
C2_TruthTable ==
    (Done(LogicalTokens) /\ Kind(P) = "Bool" /\ cont.err = nil /\ Kind(F) = "Bool") =>
        /\ ~result.panicked
        /\ result.err = nil
        /\ Kind(result.val) = "Bool"
        /\ result.val.b = (IF token \in AndTokens THEN P.b /\ F.b ELSE P.b \/ F.b)
        /\ LET other == CASE token = "LAND" -> ANDExprExecutorExec(pending, cont)
                          [] token = "AND" -> LANDExprExecutorExec(pending, cont)
                          [] token = "LOR" -> ORExprExecutorExec(pending, cont)
                          [] token = "OR" -> LORExprExecutorExec(pending, cont)
           IN  other.val = result.val /\ other.err = result.err

\* C2 witness: LOR on (false, true) fetched the right-hand side and is true.
C2_Witness ==
    /\ Done({"LOR"})
    /\ pending = falseValue
    /\ cont = [val |-> trueValue, err |-> nil]
    /\ result = Return(trueValue, nil, 1)

\* C3: when the pending boolean does not short-circuit and the continuation
\* yields a value that is not a boolean, Exec returns an error and not the
\* fetched value.
C3_FetchedMustBeBoolean ==
    (Done(LogicalTokens) /\ Kind(P) = "Bool" /\ ~ShortCircuits
        /\ cont.err = nil /\ Kind(F) # "Bool") =>
        /\ ~result.panicked
        /\ result.err # nil

\* C4: when the pending operand, unwrapped, is not a boolean, Exec returns an
\* error with the invalid value and never invokes the continuation.
C4_PendingMustBeBoolean ==
    (Done(LogicalTokens) /\ Kind(P) # "Bool") =>
        /\ ~result.panicked
        /\ result.err # nil
        /\ result.val = invalidValue
        /\ result.calls = 0

\* C4 witness: LAND on a pending int64 failed without fetching.
C4_Witness ==
    /\ Done({"LAND"})
    /\ pending = Int64Of(1)
    /\ cont.err = nil
    /\ result.err # nil
    /\ result.calls = 0

\* C5: NOT ignores the pending operand, invokes the continuation once, and
\* returns the negation of a fetched boolean; on a fetched value that is not
\* a boolean it returns an error: it neither panics nor returns a value.
C5_NotNegatesOrFails ==
    (Done({"NOT"}) /\ cont.err = nil) =>
        /\ result.calls = 1
        /\ IF Kind(cont.val) = "Bool"
           THEN result = Return(BoolOf(~cont.val.b), nil, 1)
           ELSE ~result.panicked /\ result.err # nil /\ result.val = invalidValue

-----------------------------------------------------------------------------
(* Properties of the arithmetic executors *)

ArithmeticTokens == {"ADD", "SUB", "MUL", "QUO", "REM"}

DivisionTokens == {"QUO", "REM"}

IntegerKinds == IntKinds \cup UintKinds

\* The family of a kind in the coercion table.
Family(k) ==
    CASE k \in IntKinds -> "signed"
      [] k \in UintKinds -> "unsigned"
      [] k \in FloatKinds -> "float"
      [] k \in ComplexKinds -> "complex"
      [] k = "String" -> "text"
      [] OTHER -> "none"

\* The cells of the coercion table that hold a result kind for operator op.
Supported(op, kp, kf) ==
    \/ {Family(kp), Family(kf)} \subseteq {"signed", "unsigned"}
    \/ Family(kp) = "float" /\ Family(kf) = "float" /\ op # "REM"
    \/ Family(kp) = "complex" /\ Family(kf) = "complex" /\ op # "REM"
    \/ Family(kp) = "text" /\ Family(kf) = "text" /\ op = "ADD"

\* The cells marked with a dash.
DashCell(op, kp, kf) ==
    /\ Family(kp) # "none"
    /\ Family(kf) # "none"
    /\ ~Supported(op, kp, kf)

\* C6: QUO and REM on integer operands with a zero divisor return an error:
\* they neither panic nor return a value.
C6_DivisionByZeroIsAnError ==
    (Done(DivisionTokens) /\ cont.err = nil
        /\ Kind(P) \in IntegerKinds /\ Kind(F) \in IntegerKinds /\ F.n = 0) =>
        /\ ~result.panicked
        /\ result.err # nil

\* C7: on every dash cell of the coercion table the arithmetic executor
\* returns an error with the invalid value.
C7_DashCellsFail ==
    (Done(ArithmeticTokens) /\ cont.err = nil /\ DashCell(token, Kind(P), Kind(F))) =>
        /\ ~result.panicked
        /\ result.err # nil
        /\ result.val = invalidValue

\* C7 witness: REM on two floats failed.
C7_Witness ==
    /\ Done({"REM"})
    /\ Kind(P) \in FloatKinds
    /\ cont.err = nil
    /\ Kind(F) \in FloatKinds
    /\ result.err # nil
    /\ result.val = invalidValue

\* An integer operand as an unsigned word: a negative signed operand stands
\* for its value plus 2^WordBits.
AsUnsigned(v) == IF v.n < 0 THEN v.n + Modulus ELSE v.n

\* Operator op on two unsigned words, modulo 2^WordBits.
UnsignedOp(op, x, y) ==
    CASE op = "ADD" -> (x + y) % Modulus
      [] op = "SUB" -> (x - y) % Modulus
      [] op = "MUL" -> (x * y) % Modulus
      [] op = "QUO" -> x \div y
      [] op = "REM" -> x % y

\* One operand is signed and the other unsigned.
Mixed(kp, kf) ==
    \/ kp \in IntKinds /\ kf \in UintKinds
    \/ kp \in UintKinds /\ kf \in IntKinds

\* C8: when one operand is signed and the other unsigned (divisor not zero),
\* the result is unsigned and is the operator applied modulo 2^WordBits to
\* the operands with the signed one reinterpreted as unsigned, whichever
\* side the signed operand is on.
C8_MixedIsUnsigned ==
    (Done(ArithmeticTokens) /\ cont.err = nil /\ Mixed(Kind(P), Kind(F))
        /\ (token \in DivisionTokens => F.n # 0)) =>
        /\ ~result.panicked
        /\ result.err = nil
        /\ Kind(result.val) \in UintKinds
        /\ result.val.n = UnsignedOp(token, AsUnsigned(P), AsUnsigned(F))

\* C8 witness: SUB of a negative signed pending operand and an unsigned
\* fetched one gave an unsigned result.
C8_Witness ==
    /\ Done({"SUB"})
    /\ Kind(P) \in IntKinds
    /\ P.n < 0
    /\ cont.err = nil
    /\ Kind(F) \in UintKinds
    /\ F.n > 0
    /\ Kind(result.val) = "Uint64"

\* q is the quotient of x by y truncated toward zero, r the remainder.
IsTruncQuoRem(x, y, q, r) ==
    /\ x = q * y + r
    /\ Abs(r) < Abs(y)
    /\ r = 0 \/ (r < 0) = (x < 0)

\* The exact value of x op y on the integers.
ExactOp(op, x, y) ==
    CASE op = "ADD" -> x + y
      [] op = "SUB" -> x - y
      [] op = "MUL" -> x * y
      [] op = "QUO" -> CHOOSE q \in -Modulus..Modulus :
                            \E r \in -Modulus..Modulus : IsTruncQuoRem(x, y, q, r)
      [] op = "REM" -> CHOOSE r \in -Modulus..Modulus :
                            \E q \in -Modulus..Modulus : IsTruncQuoRem(x, y, q, r)

\* Two signed operands, the divisor not zero.
SignedPair ==
    /\ Done(ArithmeticTokens)
    /\ cont.err = nil
    /\ Kind(P) \in IntKinds
    /\ Kind(F) \in IntKinds
    /\ token \in DivisionTokens => F.n # 0

\* Two text operands under ADD.
TextPair == Done({"ADD"}) /\ cont.err = nil /\ Kind(P) = "String" /\ Kind(F) = "String"

\* C9 as stated: on signed x (pending) and y (fetched), ADD returns x+y, SUB
\* x-y, MUL x*y, QUO the truncated quotient and REM the remainder of x by y;
\* on two texts ADD returns the pending text followed by the fetched one.
C9_ExactArithmetic ==
    /\ SignedPair =>
        /\ ~result.panicked
        /\ result.err = nil
        /\ result.val.n = ExactOp(token, P.n, F.n)
    /\ TextPair => result = Return(StringOf(P.s \o F.s), nil, 1)

\* C9 amended: the signed results are the exact ones reduced modulo
\* 2^WordBits into the int64 range (two's complement); operand order and
\* text concatenation are as stated.
C9_WrappedArithmetic ==
    /\ SignedPair =>
        /\ ~result.panicked
        /\ result.err = nil
        /\ Kind(result.val) = "Int64"
        /\ result.val.n \in MinInt64..MaxInt64
        /\ (result.val.n - ExactOp(token, P.n, F.n)) % Modulus = 0
    /\ TextPair => result = Return(StringOf(P.s \o F.s), nil, 1)

\* C9 witness: SUB on signed operands that differ, without overflow, gave
\* pending minus fetched.
C9_Witness ==
    /\ Done({"SUB"})
    /\ SignedPair
    /\ P.n = 1
    /\ F.n = -1
    /\ result.val.n = WrapInt64(2)

-----------------------------------------------------------------------------
(* Properties of every executor *)

\* C10: one Exec call of any of the 19 executors invokes the continuation at
\* most once, whatever the pending operand and the continuation.
C10_AtMostOneFetch == Done(Tokens) => result.calls <= 1

\* C10 witness: a comparison fetched its operand once, from a continuation
\* that failed.
C10_Witness ==
    /\ Done({"GEQ"})
    /\ cont.err # nil
    /\ result.calls = 1

-----------------------------------------------------------------------------
(* Properties of the registry *)

\* The executor type that belongs to each token of the closed set.
OwnExecutor ==
    [t \in Tokens |->
        CASE t = "EQL" -> "EQLExprExecutor" [] t = "NEQ" -> "NEQExprExecutor"
          [] t = "LSS" -> "LSSExprExecutor" [] t = "LEQ" -> "LEQExprExecutor"
          [] t = "GTR" -> "GTRExprExecutor" [] t = "GEQ" -> "GEQExprExecutor"
          [] t = "LAND" -> "LANDExprExecutor" [] t = "LOR" -> "LORExprExecutor"
          [] t = "ADD" -> "ADDExprExecutor" [] t = "SUB" -> "SUBExprExecutor"
          [] t = "MUL" -> "MULExprExecutor" [] t = "QUO" -> "QUOExprExecutor"
          [] t = "REM" -> "REMExprExecutor" [] t = "LPAREN" -> "LPARENExprExecutor"
          [] t = "RPAREN" -> "RPARENExprExecutor" [] t = "COMMENT" -> "COMMENTExprExecutor"
          [] t = "NOT" -> "NOTExprExecutor" [] t = "AND" -> "ANDExprExecutor"
          [] t = "OR" -> "ORExprExecutor"]

\* C11: FromToken returns, for each token of the closed set, that token's own
\* executor with a nil error, a different executor for each token; for any
\* other token it returns no executor and ErrUnsupportedBinaryExpr.
C11_FromTokenTotal ==
    pc = "looked" =>
        /\ token \in Tokens =>
            /\ lookup = [executor |-> OwnExecutor[token], err |-> nil]
            /\ \A u \in Tokens \ {token} : FromToken(u).executor # lookup.executor
        /\ token \notin Tokens =>
            lookup = [executor |-> "nil", err |-> ErrUnsupportedBinaryExpr]

\* C11 witness: a token outside the set was looked up and refused.
C11_Witness ==
    /\ pc = "looked"
    /\ token = "XOR"
    /\ lookup.executor = "nil"
    /\ lookup.err = ErrUnsupportedBinaryExpr

-----------------------------------------------------------------------------
(* Properties of error forwarding and of grouping *)

\* The executors that have a path on which they invoke the continuation.
FetchingTokens == Tokens \ {"RPAREN", "COMMENT"}

\* The continuation was invoked and failed.
FetchFailed == Done(FetchingTokens) /\ result.calls >= 1 /\ cont.err # nil

\* C12 as stated: when the continuation is invoked and fails with e, the
\* executor returns exactly e together with the invalid value, for the
\* comparison, arithmetic, logical, NOT and open-paren executors.
C12_ErrorWithInvalidValue ==
    FetchFailed =>
        /\ ~result.panicked
        /\ result.err = cont.err
        /\ result.val = invalidValue

\* C12 amended: the executor returns exactly e; the value beside it is the
\* invalid value, except for the open-paren executor, which returns the value
\* the continuation returned beside e.
C12_ErrorForwarded ==
    FetchFailed =>
        /\ ~result.panicked
        /\ result.err = cont.err
        /\ result.val = (IF token = "LPAREN" THEN cont.val ELSE invalidValue)

\* C12 witness: a comparison whose continuation failed with a value beside
\* the error returned that error and the invalid value.
C12_Witness ==
    /\ Done({"LSS"})
    /\ cont = [val |-> trueValue, err |-> <<"ErrB">>]
    /\ result = Return(invalidValue, <<"ErrB">>, 1)

\* C13: the open-paren executor invokes the continuation exactly once and
\* returns exactly the (value, error) pair it returned, whatever the pending
\* operand.
C13_OpenParenPassThrough == Done({"LPAREN"}) => result = Return(cont.val, cont.err, 1)

\* C13 witness: open-paren with a valid pending operand passed on a failing
\* continuation's value and error.
C13_Witness ==
    /\ Done({"LPAREN"})
    /\ pending = Int64Of(1)
    /\ cont = [val |-> trueValue, err |-> <<"ErrA">>]
    /\ result = Return(trueValue, <<"ErrA">>, 1)

\* C14: close-paren returns its pending operand unchanged and comment returns
\* true; neither invokes the continuation nor fails, also when the
\* continuation would fail.
C14_CloseParenAndComment ==
    /\ Done({"RPAREN"}) => result = Return(pending, nil, 0)
    /\ Done({"COMMENT"}) => result = Return(trueValue, nil, 0)

\* C14 witness: close-paren returned a pointer operand as it was, with a
\* continuation that would have failed.
C14_Witness ==
    /\ Done({"RPAREN"})
    /\ pending = PtrTo(trueValue)
    /\ cont.err # nil
    /\ result = Return(PtrTo(trueValue), nil, 0)

-----------------------------------------------------------------------------
(* Properties of Transaction and NestedTransaction *)

\* How often call occurs in log
RECURSIVE Count(_, _)
Count(log, call) ==
    IF log = <<>> THEN 0
    ELSE (IF Head(log) = call THEN 1 ELSE 0) + Count(Tail(log), call)

\* Some occurrence of first precedes every occurrence of second in log.
Before(log, first, second) ==
    \A j \in 1..Len(log) : log[j] = second => \E i \in 1..(j - 1) : log[i] = first

\* A call of Transaction has ended.
TxCalled == fn = "Transaction"

\* ... in which Begin succeeded
Began == TxCalled /\ IsEngine(txIn.manager) /\ txIn.begin = nil

\* ... and the handler returned
HandlerReturned == Began /\ ~txIn.handler.panicked

C16_NestedJoinsOrBegins ==
    fn = "NestedTransaction" =>
        IF IsTxManager(txIn.manager)
        THEN /\ txOut.log = <<"handler(ctx)">>
             /\ txOut.err = txIn.handler.err
             /\ txOut.panicked = txIn.handler.panicked
        ELSE txOut = Transaction(txIn)

\* C16 witness: inside a transaction the handler's error came back as it was.
C16_Witness ==
    /\ fn = "NestedTransaction"
    /\ txIn.manager = "TxManager"
    /\ txIn.handler.err = <<"ErrHandler">>
    /\ txOut.err = <<"ErrHandler">>
    /\ txOut.log = <<"handler(ctx)">>

ErrBeforeRollback ==
    IF txIn.handler.err # nil /\ ~Is(txIn.handler.err, ErrCommitOnSpecific)
    THEN txIn.handler.err
    ELSE txIn.handler.err \o txIn.commit

\* C19: without an Engine, or when Begin fails, the handler, Commit and
\* Rollback are never invoked and ErrInvalidManager, or the Begin error, is
\* returned; when Begin succeeds Rollback is invoked exactly once, after the
\* handler and after Commit if Commit is called, and a Rollback error
\* matching sql.ErrTxDone leaves the returned error as it was.
C19_TransactionOrdering ==
    /\ TxCalled /\ ~Began =>
          /\ \A call \in {"handler(txCtx)", "Commit", "Rollback"} : Count(txOut.log, call) = 0
          /\ ~txOut.panicked
          /\ txOut.err = IF IsEngine(txIn.manager) THEN txIn.begin ELSE ErrInvalidManager
    /\ Began =>
          /\ Count(txOut.log, "Rollback") = 1
          /\ Before(txOut.log, "handler(txCtx)", "Rollback")
          /\ txOut.log[Len(txOut.log)] = "Rollback"
    /\ HandlerReturned /\ Is(txIn.rollback, ErrTxDone) => txOut.err = ErrBeforeRollback

\* C19 witness: the transaction was committed, so the deferred Rollback
\* answered sql.ErrTxDone, and Transaction returned nil.
C19_Witness ==
    /\ HandlerReturned
    /\ txIn.handler.err = nil
    /\ txIn.commit = nil
    /\ txIn.rollback = ErrTxDone
    /\ txOut.log = <<"Begin", "handler(txCtx)", "Commit", "Rollback">>
    /\ txOut.err = nil

-----------------------------------------------------------------------------
(* Properties of BatchSQLRowsStatementHandler.ExecContext *)

\* ceil(n / b)
Ceil(n, b) == (n + b - 1) \div b

Min(a, b) == IF a < b THEN a ELSE b

\* ExecContext was called on an Insert statement with a batch size above zero
\* and a slice or array param that is not empty.
Batching ==
    /\ fn = "ExecContext"
    /\ batchIn.action = "Insert"
    /\ batchIn.attr = "number"
    /\ batchIn.size > 0
    /\ batchIn.kind \in {"Slice", "Array"}
    /\ batchIn.length > 0

====
